---- MODULE Spec2Model ----
(***************************************************************************)
(* Model of pygame_menu's WidgetManager (widget addition to a Menu) and of *)
(* the frame packing / scroll viewport it configures.                      *)
(*                                                                         *)
(* Widget ids are strings built with '+'; an id is modelled as the         *)
(* sequence of its '+'-separated parts, so "1+2" is <<1, 2>> and the       *)
(* derived id label_id + '+' + str(n) is Append(label_id, n).              *)
(***************************************************************************)
EXTENDS Integers, Sequences, FiniteSets, TLC

\* ------------------------------------------------------------------ bounds
MaxWidgets == 3

\* longest tuple handed to parse_padding
MaxTuple == 5

\* ------------------------------------------------------- program constants
MenuWidth == 600
MenuHeight == 600

MaxNodes == 4
MaxFrames == 2

\* ------------------------------------------------------------ input sets
Menus == {"m1", "m2", "m3"}
MainMenu == {"m1"}
NoMenu == "None"
Widgets == 1..MaxWidgets
UserIds == {<<1>>, <<1, 1>>}
Sizes == {[w |-> 300, h |-> 300], [w |-> 700, h |-> 300]}
\* a title is the sequence of its '\n'-separated pieces, each piece given by
\* the number of lines textwrap.wrap cuts it into (1: the piece does not
\* exceed max_char)
Titles == {<<1>>, <<2>>, <<1, 1>>, <<2, 1>>}
NoWidget == 0
NoSize == [w |-> 0, h |-> 0]
Nodes == 1..MaxNodes
Axes == {"x", "y"}
\* arguments of frame_h / frame_v: orientation, width, height, max_width,
\* max_height and the parsed padding (top, right, bottom, left)
FrameArgs ==
    {[orient |-> "v", width |-> 300, height |-> 300, max_width |-> 300, max_height |-> 300,
      padding |-> <<0, 0, 0, 0>>],
     [orient |-> "v", width |-> 300, height |-> 300, max_width |-> 300, max_height |-> 150,
      padding |-> <<0, 0, 0, 0>>],
     [orient |-> "h", width |-> 300, height |-> 300, max_width |-> 150, max_height |-> 300,
      padding |-> <<0, 0, 0, 0>>]}
\* leaf widgets: size, margin, alignment, floating flag and declared position
LeafKinds ==
    {[frame |-> FALSE, orient |-> "-", w |-> 100, h |-> 150, vw |-> 0, vh |-> 0,
      mx |-> 0, my |-> 0, align |-> "start", floating |-> FALSE, fx |-> 0, fy |-> 0],
     [frame |-> FALSE, orient |-> "-", w |-> 80, h |-> 100, vw |-> 0, vh |-> 0,
      mx |-> 20, my |-> 20, align |-> "center", floating |-> FALSE, fx |-> 0, fy |-> 0],
     [frame |-> FALSE, orient |-> "-", w |-> 50, h |-> 50, vw |-> 0, vh |-> 0,
      mx |-> 0, my |-> 0, align |-> "end", floating |-> TRUE, fx |-> 400, fy |-> 400]}
NoKind == [frame |-> FALSE, orient |-> "-", w |-> 0, h |-> 0, vw |-> 0, vh |-> 0,
           mx |-> 0, my |-> 0, align |-> "start", floating |-> FALSE, fx |-> 0, fy |-> 0]
\* a number (int or float) is its floor n and whether it lies half above it:
\* 25 is [n |-> 25, half |-> FALSE], 25.5 [n |-> 25, half |-> TRUE] and
\* -0.5 [n |-> -1, half |-> TRUE]
Num(n) == [n |-> n, half |-> FALSE]
Numbers == {[n |-> -1, half |-> TRUE], Num(0), [n |-> 25, half |-> TRUE]}
TupleOf(e) == [type |-> "tuple", num |-> Num(0), elems |-> e]
NumberOf(v) == [type |-> "number", num |-> v, elems |-> <<>>]
\* what a caller hands in as padding: a number, a tuple of numbers, False, None
PaddingInputs ==
    {NumberOf(v) : v \in Numbers \cup {Num(-1), Num(25)}}
        \cup {TupleOf(e) : e \in UNION {[1..n -> Numbers] : n \in 0..MaxTuple}}
        \cup {[type |-> t, num |-> Num(0), elems |-> <<>>] : t \in {"False", "None"}}
NoPadding == <<>>
NoPaddingInput == [type |-> "None", num |-> Num(0), elems |-> <<>>]
\* paddings and sizes handed to frame_h / frame_v
FramePaddings ==
    {NumberOf(Num(25)), NumberOf([n |-> 25, half |-> TRUE]), NumberOf(Num(-1)),
     TupleOf(<<Num(10), Num(20), Num(30), Num(40)>>), TupleOf(<<Num(0), Num(50)>>),
     TupleOf(<<Num(25), Num(0), Num(25)>>), TupleOf(<<>>)}
FrameSizes == {[w |-> 100, h |-> 200], [w |-> 100, h |-> 50], [w |-> 40, h |-> 200]}
NoFrameSize == [w |-> 0, h |-> 0]
\* items of a DropSelectMultiple: (text, data) tuples
Item(t, d) == [text |-> t, data |-> d]
ItemLists ==
    {<<Item("a", 0), Item("b", 1), Item("a", 2)>>,
     <<Item("b", 1), Item("a", 0)>>,
     <<Item("b", 1), Item("a", 0), Item("a", 0)>>}
\* default: None, an index or a list of indices
DefaultOf(t, i, l) == [type |-> t, int |-> i, list |-> l]
Defaults ==
    {DefaultOf("None", 0, <<>>)}
        \cup {DefaultOf("int", i, <<>>) : i \in {-1, 0, 3}}
        \cup {DefaultOf("list", 0, l) : l \in {<<>>, <<1>>, <<0, 0>>, <<0, 1>>, <<2, 0>>, <<0, 3>>}}
MaxSelected == {0, 1, 2}
\* item handed to set_value: a string or an integer
ItemArgOf(t, x, i) == [type |-> t, text |-> x, int |-> i]
ItemArgs ==
    {ItemArgOf("str", x, 0) : x \in {"a", "b", "z"}}
        \cup {ItemArgOf("int", "", i) : i \in {-2, -1, 0, 1, 2, 3}}
NoItemArg == ItemArgOf("int", "", -1)
NoDropOp == [name |-> "none", item |-> NoItemArg, process |-> FALSE]
NoPoint == [x |-> 0, y |-> 0]
\* points a pointer event is delivered at
Points == {[x |-> 10, y |-> 10], [x |-> 10, y |-> 140], [x |-> 10, y |-> 200],
           [x |-> 120, y |-> 10], [x |-> 420, y |-> 420]}
NoOp == [name |-> "none", f |-> NoWidget, c |-> NoWidget]
ScrollDeltas == {-1000, 100}
DragDistances == {-75, 75}

VARIABLES
    created,     \* widgets 1..created have been constructed
    wid,         \* Widget._id
    wmenu,       \* Widget._menu
    selectable,  \* Widget.is_selectable
    selected,    \* Widget._selected
    wsize,       \* widget (width, height)
    widgets,     \* Menu._widgets
    index,       \* Menu._index (0-based, -1: no selection)
    rendered,    \* widgets positioned by a successful render pass
    events,      \* widgets whose _append_to_menu event was called
    pc,          \* position of the running add call
    queue,       \* what the running add call still has to do
    callMenu,    \* the menu of the running (or last) add call
    cur,         \* the widget _append_widget is appending (or appended last)
    pre,         \* Menu._widgets of callMenu when the call started
    preAppend,   \* Menu._widgets of callMenu when _append_widget started
    raised,      \* exception that ended the last call ("none": it returned)
    nodes,       \* frame tree: nodes 1..nodes have been constructed
    kind,        \* frame tree: what each node was constructed as
    parent,      \* Widget._frame: the frame a node is packed in
    children,    \* Frame._widgets: the packed children, in packing order
    depth,       \* Widget._frame_depth
    posn,        \* position of a node in its frame, set by the packing pass
    packed,      \* packed size a frame reports along its main axis
    offset,      \* scroll offset of a frame, per axis
    ferr,        \* error that ended the last frame operation ("none")
    fop,         \* the frame operation that has just ended, with its arguments
    fpc,         \* "done": a frame operation has just ended, "idle" otherwise
    point,       \* the point of the last hit_test
    hit,         \* the widget the last hit_test returned (0: none)
    padOp,       \* the call that used parse_padding last ("none": none yet)
    padArg,      \* the padding handed to that call
    padRet,      \* what parse_padding returned (<<>>: it raised)
    padErr,      \* the error parse_padding raised ("none": it returned)
    frameArg,    \* width and height handed to the last frame_h / frame_v
    dsMade,      \* a DropSelectMultiple has been constructed
    dsItems,     \* DropSelectMultiple._items
    dsIndex,     \* DropSelectMultiple._index (the active index, -1: none)
    dsSelected,  \* DropSelectMultiple._selected_indices
    dsDefault,   \* DropSelectMultiple._default_value
    dsMax,       \* DropSelectMultiple._max_selected
    dsOp,        \* the call on the DropSelectMultiple that has just ended
    dsErr,       \* the error that call raised ("none": it returned)
    submenus,    \* Menu._submenus: per menu, the hooks of each of its submenus
    menuHook,    \* Widget._menu_hook: the submenu a widget opens
    linkArg      \* the menu handed to the running button / menu_link call

wmvars == <<created, wid, wmenu, selectable, selected, wsize, widgets, index,
            rendered, events, pc, queue, callMenu, cur, pre, preAppend, raised>>

fvars == <<nodes, kind, parent, children, depth, posn, packed, offset, ferr, fop, fpc>>

hvars == <<point, hit>>

pvars == <<padOp, padArg, padRet, padErr, frameArg>>

dvars == <<dsMade, dsItems, dsIndex, dsSelected, dsDefault, dsMax, dsOp, dsErr>>

svars == <<submenus, menuHook, linkArg>>

vars == <<wmvars, fvars, hvars, pvars, dvars, svars>>

\* what the operations on frames, and those of the widget manager, leave alone
notframe == <<wmvars, hvars, pvars, dvars, svars>>

notwm == <<fvars, hvars, pvars, dvars, svars>>

wvars == <<created, wid, selectable, wsize>>

\* ------------------------------------------------------------- helpers
RECURSIVE SumSeq(_)
SumSeq(s) == IF s = <<>> THEN 0 ELSE Head(s) + SumSeq(Tail(s))

RECURSIVE Flatten(_)
Flatten(ss) == IF ss = <<>> THEN <<>> ELSE Head(ss) \o Flatten(Tail(ss))

Range(s) == {s[i] : i \in 1..Len(s)}

\* list.index(x): first position of x in s, 0 when absent
IndexOf(s, x) ==
    IF x \in Range(s) THEN CHOOSE i \in 1..Len(s) : s[i] = x /\ \A j \in 1..(i - 1) : s[j] # x
    ELSE 0

\* list.pop(i)
RemoveAt(s, i) == [j \in 1..(Len(s) - 1) |-> IF j < i THEN s[j] ELSE s[j + 1]]

\* ------------------------------------------------------ Menu (collaborator)
\* Menu._check_id_duplicated: raises when a widget of the menu has that id
check_id_duplicated(m, id) == \E i \in 1..Len(widgets[m]) : wid[widgets[m][i]] = id

\* Menu._render: the layout solver pass over the widgets of the menu
MenuRender(ws) ==
    IF \E i \in 1..Len(ws) : wsize[ws[i]].w > MenuWidth THEN "_MenuSizingException"
    ELSE IF SumSeq([i \in 1..Len(ws) |-> wsize[ws[i]].h]) > MenuHeight THEN "_MenuWidgetOverflow"
    ELSE "none"

\* ---------------------------------------------------------- WidgetManager
\* slip: the menu reference is set whether or not the widget has one
SetMenuIfNone_Always(w, m) == m

\* _append_widget: if widget.get_menu() is None: widget.set_menu(self._menu)
SetMenuIfNone(w, m) == IF wmenu[w] = NoMenu THEN m ELSE wmenu[w]

\* slip: the class id ('Label<id>', never the id of a widget) is checked
CheckedId_ClassId(w) == <<0>> \o wid[w]

\* _append_widget: the id handed to Menu._check_id_duplicated
CheckedId(w) == wid[w]

\* slip: a selectable widget is selected whether or not the menu has a selection
SelectOnAppend_Always(m, w) == selectable[w]

\* _append_widget: if self._menu._index < 0 and widget.is_selectable
SelectOnAppend(m, w) == index[m] < 0 /\ selectable[w]

\* slip: the widget is put first in the list
ListAppend_Front(ws, w) == <<w>> \o ws

\* _append_widget: self._menu._widgets.append(widget)
ListAppend(ws, w) == Append(ws, w)

\* slip: only the sizing exception is caught
ExceptCaught_OnlySizing(exc) == exc = "_MenuSizingException"

\* _append_widget: except (_MenuSizingException, _MenuWidgetOverflow)
ExceptCaught(exc) == exc \in {"_MenuSizingException", "_MenuWidgetOverflow"}

\* slip: the handler removes the widget and swallows the exception
Reraised_Swallowed(exc) == "none"

\* _append_widget: raise (the caught exception goes on to the caller)
Reraised(exc) == exc

\* label: label_id + '+' + str(len(widgets) + 1)
DerivedId(label_id, n) == Append(label_id, n + 1)

\* label, one piece without '\n': a single Label, or the duplicate check of
\* label_id followed by one Label per wrapped line
PieceOps(label_id, lines) ==
    IF lines = 1 THEN << [op |-> "new", id |-> label_id] >>
    ELSE << [op |-> "check", id |-> label_id] >>
         \o [j \in 1..lines |-> [op |-> "new", id |-> DerivedId(label_id, j - 1)]]

\* label: what the call does, in order
LabelOps(label_id, title) ==
    IF Len(title) = 1 THEN PieceOps(label_id, title[1])
    ELSE Flatten([i \in 1..Len(title) |->
            PieceOps(DerivedId(label_id, SumSeq(SubSeq(title, 1, i - 1))), title[i])])

\* ---------------------------------------------------------- parse_padding
\* int(v): the number cut off towards zero
IntOf(v) == IF v.n < 0 /\ v.half THEN v.n + 1 ELSE v.n

\* slip: no number is refused
NonNegative_Always(v) == TRUE

\* parse_padding: padding >= 0
NonNegative(v) == v.n >= 0

\* parse_padding: if padding is False or None: padding = 0
Normalised(padding) == IF padding.type = "False" THEN NumberOf(Num(0)) ELSE padding

\* slip: only the first element of the tuple is checked
ElementsValid_FirstOnly(e) == Len(e) = 0 \/ NonNegative(e[1])

\* parse_padding: the loop over the elements, assert padding[i] >= 0
ElementsValid(e) == \A i \in 1..Len(e) : NonNegative(e[i])

\* slip: a 3-item tuple takes the first value for left
Expand_ThreeLeftIsTop(e) ==
    IF Len(e) = 1 THEN <<IntOf(e[1]), IntOf(e[1]), IntOf(e[1]), IntOf(e[1])>>
    ELSE IF Len(e) = 2 THEN <<IntOf(e[1]), IntOf(e[2]), IntOf(e[1]), IntOf(e[2])>>
    ELSE IF Len(e) = 3 THEN <<IntOf(e[1]), IntOf(e[2]), IntOf(e[3]), IntOf(e[1])>>
    ELSE <<IntOf(e[1]), IntOf(e[2]), IntOf(e[3]), IntOf(e[4])>>

\* parse_padding: the value returned for a tuple of 1 to 4 elements
Expand(e) ==
    IF Len(e) = 1 THEN <<IntOf(e[1]), IntOf(e[1]), IntOf(e[1]), IntOf(e[1])>>
    ELSE IF Len(e) = 2 THEN <<IntOf(e[1]), IntOf(e[2]), IntOf(e[1]), IntOf(e[2])>>
    ELSE IF Len(e) = 3 THEN <<IntOf(e[1]), IntOf(e[2]), IntOf(e[3]), IntOf(e[2])>>
    ELSE <<IntOf(e[1]), IntOf(e[2]), IntOf(e[3]), IntOf(e[4])>>

\* parse_padding(padding): the error it raises ("none") and what it returns
parse_padding(padding) ==
    LET q == Normalised(padding)
    IN  IF q.type \notin {"number", "tuple"}
        THEN [err |-> "AssertionError", value |-> NoPadding]
        ELSE IF q.type = "number"
        THEN IF NonNegative(q.num)
             THEN [err |-> "none",
                   value |-> <<IntOf(q.num), IntOf(q.num), IntOf(q.num), IntOf(q.num)>>]
             ELSE [err |-> "AssertionError", value |-> NoPadding]
        ELSE IF Len(q.elems) \in 1..4 /\ ElementsValid(q.elems)
        THEN [err |-> "none", value |-> Expand(q.elems)]
        ELSE [err |-> "AssertionError", value |-> NoPadding]

\* ------------------------------------------------------------ frame tree
Max(a, b) == IF a >= b THEN a ELSE b
Min(a, b) == IF a <= b THEN a ELSE b

\* _frame: the Frame is built with the size less the padding and its scroll
\* area with max_width / max_height less the padding
FrameKind(args) ==
    LET pad_h == args.padding[2] + args.padding[4]
        pad_v == args.padding[1] + args.padding[3]
    IN  [frame |-> TRUE, orient |-> args.orient,
         w |-> args.width - pad_h, h |-> args.height - pad_v,
         vw |-> args.max_width - pad_h, vh |-> args.max_height - pad_v,
         mx |-> 0, my |-> 0, align |-> "start", floating |-> FALSE, fx |-> 0, fy |-> 0]

\* slip: only the width is checked against the padding
FrameArgsValid_WidthOnly(args) == args.width > args.padding[2] + args.padding[4]

\* _frame: assert width > pad_h; assert height > pad_v
FrameArgsValid(args) ==
    /\ args.width > args.padding[2] + args.padding[4]
    /\ args.height > args.padding[1] + args.padding[3]

Main(k, f) == IF k[f].orient = "h" THEN "x" ELSE "y"
Cross(k, f) == IF k[f].orient = "h" THEN "y" ELSE "x"
Size(k, n, a) == IF a = "x" THEN k[n].w ELSE k[n].h
Margin(k, n, a) == IF a = "x" THEN k[n].mx ELSE k[n].my
Declared(k, n, a) == IF a = "x" THEN k[n].fx ELSE k[n].fy
Viewport(k, f, a) == IF a = "x" THEN k[f].vw ELSE k[f].vh

\* slip: a max size equal to the frame size counts as lower
Scrollbar_OrEqual(k, f, a) == Viewport(k, f, a) <= Size(k, f, a)

\* frame_h / frame_v: a max size lower than the frame size makes a scrollbar
\* appear on that axis
Scrollbar(k, f, a) == Viewport(k, f, a) < Size(k, f, a)

\* slip: a floating child advances the running offset by its own size
Advance_FloatingSize(k, c, a) ==
    IF k[c].floating THEN Size(k, c, a) ELSE Size(k, c, a) + Margin(k, c, a)

\* slip: a floating child advances the running offset like any other
Advance_CountsFloating(k, c, a) == Size(k, c, a) + Margin(k, c, a)

\* packing: what a child adds to the running offset (a floating child nothing)
Advance(k, c, a) == IF k[c].floating THEN 0 ELSE Size(k, c, a) + Margin(k, c, a)

\* packing: the running offset after the children cs, started at cursor
RECURSIVE PackCursor(_, _, _, _)
PackCursor(k, cs, a, cursor) ==
    IF cs = <<>> THEN cursor
    ELSE PackCursor(k, Tail(cs), a, cursor + Advance(k, Head(cs), a))

\* packing: the main-axis position of each of the children cs, in order
RECURSIVE PackMain(_, _, _, _)
PackMain(k, cs, a, cursor) ==
    IF cs = <<>> THEN <<>>
    ELSE << IF k[Head(cs)].floating THEN Declared(k, Head(cs), a) ELSE cursor >>
         \o PackMain(k, Tail(cs), a, cursor + Advance(k, Head(cs), a))

\* packing: the cross-axis position of a child, by its alignment within the
\* cross-axis extent of the frame
PackCross(k, f, c) ==
    LET a == Cross(k, f)
    IN  IF k[c].floating THEN Declared(k, c, a)
        ELSE IF k[c].align = "start" THEN 0
        ELSE IF k[c].align = "center" THEN (Size(k, f, a) - Size(k, c, a)) \div 2
        ELSE Size(k, f, a) - Size(k, c, a)

\* slip: the pass adds the new position to the one of the pass before
PackPositions_Accumulate(k, f, cs, old) ==
    LET mains == PackMain(k, cs, Main(k, f), 0)
    IN  [n \in Nodes |->
            IF n \in Range(cs)
            THEN LET i == IndexOf(cs, n)
                 IN  IF Main(k, f) = "x"
                     THEN [x |-> old[n].x + mains[i], y |-> old[n].y + PackCross(k, f, n)]
                     ELSE [x |-> old[n].x + PackCross(k, f, n), y |-> old[n].y + mains[i]]
            ELSE old[n]]

\* the packing pass of frame f over the children cs: position of every child
PackPositions(k, f, cs, old) ==
    LET mains == PackMain(k, cs, Main(k, f), 0)
    IN  [n \in Nodes |->
            IF n \in Range(cs)
            THEN LET i == IndexOf(cs, n)
                 IN  IF Main(k, f) = "x" THEN [x |-> mains[i], y |-> PackCross(k, f, n)]
                     ELSE [x |-> PackCross(k, f, n), y |-> mains[i]]
            ELSE old[n]]

\* the frames and widgets below n in the tree, down to d levels
RECURSIVE Below(_, _, _)
Below(ch, n, d) ==
    IF d = 0 THEN {}
    ELSE Range(ch[n]) \cup UNION {Below(ch, c, d - 1) : c \in Range(ch[n])}

Descendants(ch, n) == Below(ch, n, MaxNodes)

\* slip: only the frame itself is refused, not its descendants
IsCycle_SelfOnly(ch, f, c) == c = f

\* pack: a frame cannot be packed into itself or into one of its descendants
IsCycle(ch, f, c) == c = f \/ f \in Descendants(ch, c)

\* solver pass: the content does not fit and the axis has no scrollbar
SizingFails(k, f, cs, c) ==
    \/ /\ PackCursor(k, cs, Main(k, f), 0) > Size(k, f, Main(k, f))
       /\ ~Scrollbar(k, f, Main(k, f))
    \/ /\ ~k[c].floating
       /\ Size(k, c, Cross(k, f)) > Size(k, f, Cross(k, f))
       /\ ~Scrollbar(k, f, Cross(k, f))

\* pack(c) on frame f: the error it ends with ("none": c is packed)
PackError(k, f, c) ==
    IF IsCycle(children, f, c) THEN "CycleError"
    ELSE IF parent[c] # NoWidget THEN "AssertionError"
    ELSE IF SizingFails(k, f, Append(children[f], c), c) THEN "SizingError"
    ELSE "none"

\* size of the content a frame scrolls over: the packed size along the main
\* axis, the extent of the frame along the cross axis
Content(k, pk, f, a) == IF a = Main(k, f) THEN pk[f] ELSE Size(k, f, a)

\* the largest valid scroll offset
MaxOffset(k, pk, f, a) == Max(0, Content(k, pk, f, a) - Viewport(k, f, a))

\* slip: the offset is clamped at zero only
Clamp_NoUpper(v, lo, hi) == Max(lo, v)

\* offsets are clamped to the valid range
Clamp(v, lo, hi) == Max(lo, Min(v, hi))

\* scroll_to: the nearest offset that has [lo, lo + size] inside the viewport
ScrollTarget(off, lo, size, vp) ==
    IF lo < off THEN lo
    ELSE IF lo + size > off + vp THEN lo + size - vp
    ELSE off

\* scrollbar drag: the offset moves in proportion to the drag distance
DragDelta(k, pk, f, a, d) == (d * Content(k, pk, f, a)) \div Viewport(k, f, a)

FrameInit ==
    /\ nodes = 0
    /\ kind = [n \in Nodes |-> NoKind]
    /\ parent = [n \in Nodes |-> NoWidget]
    /\ children = [n \in Nodes |-> <<>>]
    /\ depth = [n \in Nodes |-> 0]
    /\ posn = [n \in Nodes |-> [x |-> 0, y |-> 0]]
    /\ packed = [n \in Nodes |-> 0]
    /\ offset = [n \in Nodes |-> [x |-> 0, y |-> 0]]
    /\ ferr = "none"
    /\ fop = NoOp
    /\ fpc = "idle"

HitInit ==
    /\ point = NoPoint
    /\ hit = NoWidget

DropInit ==
    /\ dsMade = FALSE
    /\ dsItems = <<>>
    /\ dsIndex = -1
    /\ dsSelected = <<>>
    /\ dsDefault = <<>>
    /\ dsMax = 0
    /\ dsOp = NoDropOp
    /\ dsErr = "none"

PadInit ==
    /\ padOp = "none"
    /\ padArg = NoPaddingInput
    /\ padRet = NoPadding
    /\ padErr = "none"
    /\ frameArg = NoFrameSize

\* Menu.__init__: self._submenus = {}; Widget.__init__: self._menu_hook = None
SubInit ==
    /\ submenus = [m \in Menus |-> [a \in Menus |-> <<>>]]
    /\ menuHook = [w \in Widgets |-> NoMenu]
    /\ linkArg = NoMenu

WMInit ==
    /\ created = 0
    /\ wid = [w \in Widgets |-> <<>>]
    /\ wmenu = [w \in Widgets |-> NoMenu]
    /\ selectable = [w \in Widgets |-> FALSE]
    /\ selected = [w \in Widgets |-> FALSE]
    /\ wsize = [w \in Widgets |-> NoSize]
    /\ widgets = [m \in Menus |-> <<>>]
    /\ index = [m \in Menus |-> -1]
    /\ rendered = {}
    /\ events = {}
    /\ pc = "idle"
    /\ queue = <<>>
    /\ callMenu = "m1"
    /\ cur = NoWidget
    /\ pre = <<>>
    /\ preAppend = <<>>
    /\ raised = "none"

\* WidgetManager.generic_widget(widget) with a widget the caller has just
\* constructed (a widget is created detached)
generic_widget_new(m, id, sel, size) ==
    /\ pc = "idle"
    /\ created < MaxWidgets
    /\ created' = created + 1
    /\ wid' = [wid EXCEPT ![created + 1] = id]
    /\ selectable' = [selectable EXCEPT ![created + 1] = sel]
    /\ wsize' = [wsize EXCEPT ![created + 1] = size]
    /\ callMenu' = m
    /\ pre' = widgets[m]
    /\ preAppend' = widgets[m]
    /\ cur' = NoWidget
    /\ raised' = "none"
    /\ pc' = "run"
    /\ queue' = << [op |-> "append", w |-> created + 1] >>
    /\ UNCHANGED <<wmenu, selected, widgets, index, rendered, events>>
    /\ UNCHANGED notwm

\* WidgetManager.generic_widget(widget) with a widget used in a call before
generic_widget(m, w) ==
    /\ pc = "idle"
    /\ w \in 1..created
    /\ callMenu' = m
    /\ pre' = widgets[m]
    /\ preAppend' = widgets[m]
    /\ cur' = NoWidget
    /\ IF wmenu[w] # NoMenu
       THEN /\ raised' = "ValueError"
            /\ pc' = "done"
            /\ UNCHANGED queue
       ELSE /\ raised' = "none"
            /\ pc' = "run"
            /\ queue' = << [op |-> "append", w |-> w] >>
    /\ UNCHANGED <<wvars, wmenu, selected, widgets, index, rendered, events>>
    /\ UNCHANGED notwm

\* WidgetManager._append_widget(widget) called on its own
append_widget(m, w) ==
    /\ pc = "idle"
    /\ w \in 1..created
    /\ callMenu' = m
    /\ pre' = widgets[m]
    /\ preAppend' = widgets[m]
    /\ cur' = NoWidget
    /\ raised' = "none"
    /\ pc' = "run"
    /\ queue' = << [op |-> "append", w |-> w] >>
    /\ UNCHANGED <<wvars, wmenu, selected, widgets, index, rendered, events>>
    /\ UNCHANGED notwm

\* WidgetManager.label(title, label_id, max_char, selectable=sel)
label(m, label_id, title, sel, size) ==
    /\ pc = "idle"
    /\ created + SumSeq(title) <= MaxWidgets
    /\ callMenu' = m
    /\ pre' = widgets[m]
    /\ preAppend' = widgets[m]
    /\ cur' = NoWidget
    /\ raised' = "none"
    /\ pc' = "run"
    /\ queue' = [i \in 1..Len(LabelOps(label_id, title)) |->
                    [op |-> LabelOps(label_id, title)[i].op,
                     id |-> LabelOps(label_id, title)[i].id,
                     sel |-> sel, size |-> size]]
    /\ UNCHANGED <<wvars, wmenu, selected, widgets, index, rendered, events>>
    /\ UNCHANGED notwm

\* label: self._menu._check_id_duplicated(label_id)  # Before adding + LEN
LabelCheck ==
    /\ pc = "run"
    /\ queue # <<>>
    /\ Head(queue).op = "check"
    /\ IF check_id_duplicated(callMenu, Head(queue).id)
       THEN /\ raised' = "IndexError"
            /\ queue' = <<>>
            /\ pc' = "done"
       ELSE /\ queue' = Tail(queue)
            /\ UNCHANGED <<raised, pc>>
    /\ UNCHANGED <<wvars, wmenu, selected, widgets, index, rendered, events,
                   callMenu, cur, pre, preAppend>>
    /\ UNCHANGED notwm

\* label: widget = pygame_menu.widgets.Label(label_id=..., title=...)
LabelNew ==
    /\ pc = "run"
    /\ queue # <<>>
    /\ Head(queue).op = "new"
    /\ created < MaxWidgets
    /\ created' = created + 1
    /\ wid' = [wid EXCEPT ![created + 1] = Head(queue).id]
    /\ selectable' = [selectable EXCEPT ![created + 1] = Head(queue).sel]
    /\ wsize' = [wsize EXCEPT ![created + 1] = Head(queue).size]
    /\ queue' = << [op |-> "append", w |-> created + 1] >> \o Tail(queue)
    /\ UNCHANGED <<wmenu, selected, widgets, index, rendered, events, pc,
                   callMenu, cur, pre, preAppend, raised>>
    /\ UNCHANGED notwm

\* _append_widget up to the forced render: menu reference, duplicate check,
\* unselect, append, selection index
AppendStep ==
    /\ pc = "run"
    /\ queue # <<>>
    /\ Head(queue).op = "append"
    /\ LET w == Head(queue).w
           m == callMenu
       IN  /\ cur' = w
           /\ preAppend' = widgets[m]
           /\ IF SetMenuIfNone(w, m) # m
              THEN /\ raised' = "AssertionError"
                   /\ queue' = <<>>
                   /\ pc' = "done"
                   /\ UNCHANGED <<wmenu, selected, widgets, index>>
              ELSE /\ wmenu' = [wmenu EXCEPT ![w] = SetMenuIfNone(w, m)]
                   /\ IF check_id_duplicated(m, CheckedId(w))
                      THEN /\ raised' = "IndexError"
                           /\ queue' = <<>>
                           /\ pc' = "done"
                           /\ UNCHANGED <<selected, widgets, index>>
                      ELSE /\ selected' = [selected EXCEPT ![w] = SelectOnAppend(m, w)]
                           /\ widgets' = [widgets EXCEPT ![m] = ListAppend(@, w)]
                           /\ index' = [index EXCEPT ![m] =
                                   IF SelectOnAppend(m, w) THEN Len(widgets[m]) ELSE @]
                           /\ queue' = Tail(queue)
                           /\ pc' = "appended"
                           /\ UNCHANGED raised
    /\ UNCHANGED <<wvars, rendered, events, callMenu, pre>>
    /\ UNCHANGED notwm

\* _append_widget from the forced render on: self._menu._render() and, when
\* it raises a sizing or overflow exception, remove_widget and re-raise;
\* otherwise the widget's _append_to_menu event
RenderStep ==
    /\ pc = "appended"
    /\ LET m == callMenu
           exc == MenuRender(widgets[m])
           at == IndexOf(widgets[m], cur)
       IN  IF exc = "none"
           THEN /\ rendered' = rendered \cup {cur}
                /\ events' = events \cup {cur}
                /\ pc' = IF queue = <<>> THEN "done" ELSE "run"
                /\ UNCHANGED <<wmenu, widgets, index, queue, raised>>
           ELSE IF ExceptCaught(exc)
           THEN \* Menu.remove_widget(widget)
                /\ widgets' = [widgets EXCEPT ![m] = RemoveAt(@, at)]
                /\ index' = [index EXCEPT ![m] = IF @ = at - 1 THEN -1 ELSE @]
                /\ wmenu' = [wmenu EXCEPT ![cur] = NoMenu]
                /\ rendered' = rendered \ {cur}
                /\ raised' = Reraised(exc)
                /\ queue' = <<>>
                /\ pc' = "done"
                /\ UNCHANGED events
           ELSE /\ raised' = exc
                /\ queue' = <<>>
                /\ pc' = "done"
                /\ UNCHANGED <<wmenu, widgets, index, rendered, events>>
    /\ UNCHANGED <<wvars, selected, callMenu, cur, pre, preAppend>>
    /\ UNCHANGED notwm

\* the call has returned or raised; the caller goes on
Return ==
    /\ pc = "done"
    /\ pc' = "idle"
    /\ raised' = "none"
    /\ cur' = NoWidget
    /\ pre' = <<>>
    /\ preAppend' = <<>>
    /\ callMenu' = "m1"
    /\ UNCHANGED <<wvars, wmenu, selected, widgets, index, rendered, events, queue>>
    /\ UNCHANGED notwm

Init == WMInit /\ FrameInit /\ HitInit /\ PadInit /\ DropInit /\ SubInit

\* the calls of one menu
Next ==
    \/ \E m \in MainMenu, id \in UserIds, sel \in BOOLEAN, size \in Sizes :
            generic_widget_new(m, id, sel, size)
    \/ \E m \in MainMenu, w \in Widgets : generic_widget(m, w)
    \/ \E m \in MainMenu, w \in Widgets : append_widget(m, w)
    \/ \E m \in MainMenu, id \in UserIds, t \in Titles, sel \in BOOLEAN, size \in Sizes :
            label(m, id, t, sel, size)
    \/ LabelCheck
    \/ LabelNew
    \/ AppendStep
    \/ RenderStep
    \/ Return

Spec == Init /\ [][Next]_vars

\* widgets handed to the managers of two menus
OwnerNext ==
    \/ \E m \in Menus, id \in UserIds, size \in Sizes :
            generic_widget_new(m, id, TRUE, size)
    \/ \E m \in Menus, w \in Widgets : generic_widget(m, w)
    \/ \E m \in Menus, w \in Widgets : append_widget(m, w)
    \/ AppendStep
    \/ RenderStep
    \/ Return

SpecOwner == Init /\ [][OwnerNext]_vars

\* ------------------------------------------------------------------ claims
InList(w) == \E m \in Menus : w \in Range(widgets[m])

\* attachment status of a widget
Status(w) ==
    IF ~InList(w) THEN "Detached"
    ELSE IF w \in rendered THEN "AttachedRendered"
    ELSE "AttachedUnrendered"

RenderFails == pc = "appended" /\ MenuRender(widgets[callMenu]) # "none"

\* C1: when the forced render pass of _append_widget raises a sizing or
\* overflow exception, the new widget is removed again, that exception goes
\* to the caller and the widgets of before the call are in the list in the
\* same order.
C1_RenderFailureAbortsAdd ==
    [][RenderFails =>
        /\ cur \notin Range(widgets'[callMenu])
        /\ widgets'[callMenu] = preAppend
        /\ \A m \in Menus \ {callMenu} : widgets'[m] = widgets[m]
        /\ raised' = MenuRender(widgets[callMenu])
        /\ raised' \in {"_MenuSizingException", "_MenuWidgetOverflow"}
        /\ pc' = "done"]_vars

C1_Witness ==
    /\ pc = "done"
    /\ raised = "_MenuWidgetOverflow"
    /\ Len(preAppend) >= 2
    /\ widgets[callMenu] = preAppend
    /\ cur \in 1..created
    /\ ~InList(cur)

\* C2: a widget goes Detached -> Attached-Unrendered -> Attached-Rendered; it
\* becomes Attached-Rendered, and gets its appended-to-menu event, only by a
\* successful render pass after its append; a failed pass takes the new widget
\* back to Detached and leaves the widgets added before Attached-Rendered.
C2_AttachmentStateMachine ==
    [][/\ \A w \in Widgets :
            /\ Status(w)' # Status(w) =>
                  <<Status(w), Status(w)'>> \in
                      {<<"Detached", "AttachedUnrendered">>,
                       <<"AttachedUnrendered", "AttachedRendered">>,
                       <<"AttachedUnrendered", "Detached">>}
            /\ (Status(w)' = "AttachedRendered" /\ Status(w) # "AttachedRendered") =>
                  (pc = "appended" /\ w = cur /\ ~RenderFails)
            /\ (w \in events' /\ w \notin events) =>
                  (pc = "appended" /\ w = cur /\ ~RenderFails
                   /\ Status(w)' = "AttachedRendered")
       /\ RenderFails =>
            /\ Status(cur)' = "Detached"
            /\ \A i \in 1..Len(preAppend) : Status(preAppend[i])' = "AttachedRendered"]_vars

C2_Witness ==
    /\ pc = "done"
    /\ raised = "_MenuSizingException"
    /\ cur \in 1..created
    /\ Status(cur) = "Detached"
    /\ cur \notin events
    /\ preAppend # <<>>
    /\ \A i \in 1..Len(preAppend) : Status(preAppend[i]) = "AttachedRendered"

\* the widget _append_widget is about to handle has the id of a widget of the
\* menu (and passes the menu assertion)
DuplicateAdd ==
    /\ pc = "run"
    /\ queue # <<>>
    /\ Head(queue).op = "append"
    /\ SetMenuIfNone(Head(queue).w, callMenu) = callMenu
    /\ check_id_duplicated(callMenu, wid[Head(queue).w])

\* C3: an add rejected for a duplicate id raises the error and leaves the
\* pre-call state: the widget list is unchanged and the rejected widget has
\* the menu reference it had before the call (none, for a detached widget).
C3_DuplicateRejectionRestoresState ==
    [][DuplicateAdd =>
        /\ raised' = "IndexError"
        /\ widgets' = widgets
        /\ wmenu' = wmenu]_vars

\* ids of the widgets of a menu are pairwise different
NoDuplicateIds(m) ==
    \A i, j \in 1..Len(widgets[m]) : i # j => wid[widgets[m][i]] # wid[widgets[m][j]]

\* C4: no two widgets in the widget list of a menu have the same id, label()
\* with its derived ids included; an add that would bring a duplicate id is
\* rejected and the list is as it was before the add.
C4_NoDuplicateIds ==
    /\ \A m \in Menus : NoDuplicateIds(m)
    /\ (pc = "done" /\ raised = "IndexError") => widgets[callMenu] = preAppend

C4_Witness ==
    /\ pc = "done"
    /\ raised = "IndexError"
    /\ cur \in 1..created
    /\ \E i \in 1..Len(widgets[callMenu]) :
          /\ widgets[callMenu][i] # cur
          /\ wid[widgets[callMenu][i]] = wid[cur]
          /\ Len(wid[cur]) >= 2
    /\ Len(widgets[callMenu]) >= 2

\* number of places a widget has in the widget lists of all the menus
Places(w) == {<<m, i>> \in Menus \X (1..MaxWidgets) : i <= Len(widgets[m]) /\ widgets[m][i] = w}

\* C5: a widget is in the widget list of at most one menu and at most once;
\* generic_widget raises ValueError for a widget that has a menu and
\* _append_widget refuses a widget whose menu is another one, both leaving
\* the list as it was.
C5_SingleOwner ==
    /\ \A w \in Widgets : Cardinality(Places(w)) <= 1
    /\ \A w \in Widgets : \A m \in Menus : w \in Range(widgets[m]) => wmenu[w] = m
    /\ (pc = "done" /\ raised \in {"ValueError", "AssertionError"}) =>
            widgets[callMenu] = pre

C5_Witness ==
    /\ pc = "done"
    /\ raised = "AssertionError"
    /\ cur \in 1..created
    /\ \E m \in Menus \ {callMenu} : cur \in Range(widgets[m])
    /\ widgets[callMenu] # <<>>

\* ------------------------------------------------- frame tree operations
\* frame_h / frame_v: a frame is constructed (detached); frames are
\* constructed among the first MaxFrames nodes only
frame(args) ==
    /\ fop' = [name |-> "frame", f |-> nodes + 1, c |-> NoWidget]
    /\ fpc = "idle"
    /\ fpc' = "done"
    /\ nodes < MaxNodes
    /\ nodes < MaxFrames
    /\ IF FrameArgsValid(args)
       THEN /\ nodes' = nodes + 1
            /\ kind' = [kind EXCEPT ![nodes + 1] = FrameKind(args)]
            /\ ferr' = "none"
       ELSE /\ ferr' = "AssertionError"
            /\ UNCHANGED <<nodes, kind>>
    /\ UNCHANGED <<parent, children, depth, posn, packed, offset>>
    /\ UNCHANGED notframe

\* the state after pack(c) on frame f, given the kinds k and node count n
PackInto(k, n, f, c) ==
    /\ nodes' = n
    /\ kind' = k
    /\ ferr' = PackError(k, f, c)
    /\ IF PackError(k, f, c) = "none"
       THEN /\ parent' = [parent EXCEPT ![c] = f]
            /\ children' = [children EXCEPT ![f] = Append(@, c)]
            /\ depth' = [x \in Nodes |->
                    IF x = c \/ x \in Descendants(children, c)
                    THEN depth[x] + depth[f] + 1 ELSE depth[x]]
            /\ posn' = PackPositions(k, f, Append(children[f], c), posn)
            /\ packed' = [packed EXCEPT ![f] =
                    PackCursor(k, Append(children[f], c), Main(k, f), 0)]
       ELSE UNCHANGED <<parent, children, depth, posn, packed>>
    /\ UNCHANGED offset

\* Frame.pack(widget) with a widget constructed for it
pack_new(f, lk) ==
    /\ fop' = [name |-> "pack", f |-> f, c |-> nodes + 1]
    /\ fpc = "idle"
    /\ fpc' = "done"
    /\ f \in 1..nodes
    /\ kind[f].frame
    /\ nodes < MaxNodes
    /\ PackInto([kind EXCEPT ![nodes + 1] = lk], nodes + 1, f, nodes + 1)
    /\ UNCHANGED notframe

\* Frame.pack(widget) with a frame or a widget that exists
pack(f, c) ==
    /\ fop' = [name |-> "pack", f |-> f, c |-> c]
    /\ fpc = "idle"
    /\ fpc' = "done"
    /\ f \in 1..nodes
    /\ c \in 1..nodes
    /\ kind[f].frame
    /\ PackInto(kind, nodes, f, c)
    /\ UNCHANGED notframe

\* the packing pass run again on frame f
repack(f) ==
    /\ fop' = [name |-> "repack", f |-> f, c |-> NoWidget]
    /\ fpc = "idle"
    /\ fpc' = "done"
    /\ f \in 1..nodes
    /\ kind[f].frame
    /\ ferr' = "none"
    /\ posn' = PackPositions(kind, f, children[f], posn)
    /\ packed' = [packed EXCEPT ![f] = PackCursor(kind, children[f], Main(kind, f), 0)]
    /\ UNCHANGED <<nodes, kind, parent, children, depth, offset>>
    /\ UNCHANGED notframe

\* scroll_to(widget) on frame f
scroll_to(f, c) ==
    /\ fop' = [name |-> "scroll_to", f |-> f, c |-> c]
    /\ f \in 1..nodes
    /\ kind[f].frame
    /\ c \in Range(children[f])
    /\ ferr' = "none"
    /\ offset' = [offset EXCEPT ![f] =
            [x |-> Clamp(ScrollTarget(offset[f].x, posn[c].x, Size(kind, c, "x"),
                                      Viewport(kind, f, "x")),
                         0, MaxOffset(kind, packed, f, "x")),
             y |-> Clamp(ScrollTarget(offset[f].y, posn[c].y, Size(kind, c, "y"),
                                      Viewport(kind, f, "y")),
                         0, MaxOffset(kind, packed, f, "y"))]]
    /\ UNCHANGED <<nodes, kind, parent, children, depth, posn, packed, fpc>>
    /\ UNCHANGED notframe

\* the offset of frame f moved by delta along axis a
ScrollBy(f, a, delta) ==
    [offset EXCEPT ![f] =
        IF a = "x"
        THEN [@ EXCEPT !.x = Clamp(@ + delta, 0, MaxOffset(kind, packed, f, "x"))]
        ELSE [@ EXCEPT !.y = Clamp(@ + delta, 0, MaxOffset(kind, packed, f, "y"))]]

\* scroll of frame f by delta along axis a
scroll(f, a, delta) ==
    /\ fop' = [name |-> "scroll", f |-> f, c |-> NoWidget]
    /\ f \in 1..nodes
    /\ kind[f].frame
    /\ ferr' = "none"
    /\ offset' = ScrollBy(f, a, delta)
    /\ UNCHANGED <<nodes, kind, parent, children, depth, posn, packed, fpc>>
    /\ UNCHANGED notframe

\* drag of the scrollbar thumb of frame f along axis a by d pixels
drag(f, a, d) ==
    /\ fop' = [name |-> "drag", f |-> f, c |-> NoWidget]
    /\ f \in 1..nodes
    /\ kind[f].frame
    /\ Scrollbar(kind, f, a)
    /\ ferr' = "none"
    /\ offset' = ScrollBy(f, a, DragDelta(kind, packed, f, a, d))
    /\ UNCHANGED <<nodes, kind, parent, children, depth, posn, packed, fpc>>
    /\ UNCHANGED notframe

\* the frame operation has returned or raised; the caller goes on
FrameReturn ==
    /\ fpc = "done"
    /\ fpc' = "idle"
    /\ ferr' = "none"
    /\ fop' = NoOp
    /\ UNCHANGED <<nodes, kind, parent, children, depth, posn, packed, offset>>
    /\ UNCHANGED notframe

FrameNext ==
    \/ \E args \in FrameArgs : frame(args)
    \/ \E f \in Nodes, lk \in LeafKinds : pack_new(f, lk)
    \/ \E f \in Nodes, c \in Nodes : pack(f, c)
    \/ \E f \in Nodes : repack(f)
    \/ FrameReturn

SpecFrame == Init /\ [][FrameNext]_vars

\* a frame (node 1) with the children cs packed into it one after the other
PackedFrame(args, cs) ==
    LET k == [n \in Nodes |->
                IF n = 1 THEN FrameKind(args)
                ELSE IF n - 1 <= Len(cs) THEN cs[n - 1] ELSE NoKind]
        ch == [i \in 1..Len(cs) |-> i + 1]
    IN  /\ \A i \in 1..Len(cs) : ~SizingFails(k, 1, SubSeq(ch, 1, i), i + 1)
        /\ nodes = Len(cs) + 1
        /\ kind = k
        /\ parent = [n \in Nodes |-> IF n \in Range(ch) THEN 1 ELSE NoWidget]
        /\ children = [n \in Nodes |-> IF n = 1 THEN ch ELSE <<>>]
        /\ depth = [n \in Nodes |-> IF n \in Range(ch) THEN 1 ELSE 0]
        /\ posn = PackPositions(k, 1, ch, [n \in Nodes |-> [x |-> 0, y |-> 0]])
        /\ packed = [n \in Nodes |-> IF n = 1 THEN PackCursor(k, ch, Main(k, 1), 0) ELSE 0]
        /\ offset = [n \in Nodes |-> [x |-> 0, y |-> 0]]
        /\ ferr = "none"
        /\ fop = NoOp
        /\ fpc = "idle"

InitScroll ==
    /\ WMInit
    /\ HitInit
    /\ PadInit
    /\ DropInit
    /\ SubInit
    /\ \E args \in FrameArgs : \E n \in 0..(MaxNodes - 1) : \E cs \in [1..n -> LeafKinds] :
            PackedFrame(args, cs)

ScrollNext ==
    \/ \E f \in Nodes, c \in Nodes : scroll_to(f, c)
    \/ \E f \in Nodes, a \in Axes, delta \in ScrollDeltas : scroll(f, a, delta)
    \/ \E f \in Nodes, a \in Axes, d \in DragDistances : drag(f, a, d)

SpecScroll == InitScroll /\ [][ScrollNext]_vars

\* ------------------------------------------------------- frame tree claims
IsFrame(n) == n \in 1..nodes /\ kind[n].frame

\* n and the frames n is packed in, following the parent references
RECURSIVE Up(_, _)
Up(n, d) == IF n = NoWidget \/ d = 0 THEN {} ELSE {n} \cup Up(parent[n], d - 1)

SelfAndAncestors(n) == Up(n, MaxNodes + 1)

\* C6: packing a frame into itself or into one of its descendants raises
\* CycleError and changes no parent reference, child list, depth, position
\* or packed size.
C6_CycleRejected ==
    [][(fpc = "idle" /\ fop'.name = "pack" /\ fop'.c \in SelfAndAncestors(fop'.f)) =>
        /\ ferr' = "CycleError"
        /\ UNCHANGED <<parent, children, depth, posn, packed, offset, nodes, kind>>]_vars

C6_Witness ==
    /\ fpc = "done"
    /\ fop.name = "pack"
    /\ ferr = "CycleError"
    /\ fop.c # fop.f
    /\ fop.c \in SelfAndAncestors(fop.f)
    /\ children[fop.c] # <<>>

\* sum of size + margin along the main axis over the non-floating children
NonFloatingExtent(f) ==
    SumSeq([i \in 1..Len(children[f]) |->
        IF kind[children[f][i]].floating THEN 0
        ELSE IF kind[f].orient = "h"
             THEN kind[children[f][i]].w + kind[children[f][i]].mx
             ELSE kind[children[f][i]].h + kind[children[f][i]].my])

\* C7: the packed size a frame reports along its main axis is the sum of
\* size + margin over its non-floating children; an empty frame reports zero.
C7_PackedSizeIsSum ==
    \A f \in Nodes : IsFrame(f) =>
        /\ packed[f] = NonFloatingExtent(f)
        /\ children[f] = <<>> => packed[f] = 0

C7_Witness ==
    \E f \in Nodes :
        /\ IsFrame(f)
        /\ Len(children[f]) = 3
        /\ \E i \in 1..3 : kind[children[f][i]].floating
        /\ \E i \in 1..3 : ~kind[children[f][i]].floating /\ kind[children[f][i]].my > 0
        /\ packed[f] = NonFloatingExtent(f)
        /\ packed[f] > 0

ContentSize(f, a) ==
    IF (kind[f].orient = "h") = (a = "x") THEN NonFloatingExtent(f)
    ELSE IF a = "x" THEN kind[f].w ELSE kind[f].h

ViewportSize(f, a) == IF a = "x" THEN kind[f].vw ELSE kind[f].vh

WidgetSize(c, a) == IF a = "x" THEN kind[c].w ELSE kind[c].h

OffsetsInRange ==
    \A f \in Nodes : IsFrame(f) => \A a \in Axes :
        /\ 0 <= offset[f][a]
        /\ ContentSize(f, a) > ViewportSize(f, a) =>
                offset[f][a] <= ContentSize(f, a) - ViewportSize(f, a)
        /\ ContentSize(f, a) <= ViewportSize(f, a) => offset[f][a] = 0

FitsViewport(f, c) == \A a \in Axes : WidgetSize(c, a) <= ViewportSize(f, a)

InsideViewport(f, c) ==
    \A a \in Axes :
        /\ offset[f][a] <= posn[c][a]
        /\ posn[c][a] + WidgetSize(c, a) <= offset[f][a] + ViewportSize(f, a)

InsideContent(f, c) ==
    \A a \in Axes : 0 <= posn[c][a] /\ posn[c][a] + WidgetSize(c, a) <= ContentSize(f, a)

ExampleFrame(f, n) ==
    /\ IsFrame(f)
    /\ kind[f].orient = "v"
    /\ kind[f].h = 300
    /\ Len(children[f]) = n
    /\ \A i \in 1..n : /\ kind[children[f][i]].h = 150
                        /\ kind[children[f][i]].my = 0
                        /\ ~kind[children[f][i]].floating

\* what C10 says apart from the scroll range of the example
SizingRule ==
    /\ \A f \in Nodes : (IsFrame(f) /\ kind[f].orient = "v" /\ kind[f].vh >= kind[f].h) =>
            packed[f] <= kind[f].h
    /\ \A f \in Nodes : (IsFrame(f) /\ kind[f].orient = "h" /\ kind[f].vw >= kind[f].w) =>
            packed[f] <= kind[f].w
    /\ (/\ fpc = "done"
        /\ fop.name = "pack"
        /\ ExampleFrame(fop.f, 2)
        /\ kind[fop.f].vh = 300
        /\ kind[fop.c].h = 150
        /\ ~kind[fop.c].floating
        /\ ~kind[fop.c].frame
        /\ parent[fop.c] = NoWidget) => ferr = "SizingError"
    /\ \A f \in Nodes : ExampleFrame(f, 3) => (kind[f].vh < 300 /\ packed[f] = 450)

ExtentBefore(f, i) ==
    SumSeq([j \in 1..(i - 1) |->
        IF kind[children[f][j]].floating THEN 0
        ELSE WidgetSize(children[f][j], Main(kind, f))
             + Margin(kind, children[f][j], Main(kind, f))])

\* the frame of the example: horizontal, with [A(width=100),
\* B(width=50, floating), C(width=80)] packed in that order
FloatingExample(f) ==
    /\ IsFrame(f)
    /\ kind[f].orient = "h"
    /\ Len(children[f]) = 3
    /\ kind[children[f][1]].w = 100 /\ ~kind[children[f][1]].floating
    /\ kind[children[f][1]].mx = 0
    /\ kind[children[f][2]].w = 50 /\ kind[children[f][2]].floating
    /\ kind[children[f][3]].w = 80 /\ ~kind[children[f][3]].floating

\* C11: a floating child never advances the packing cursor: a non-floating
\* child is placed at the sum of size + margin of the non-floating children
\* before it, whatever floating children are present, a floating child at
\* its own declared offset; in the example A is at x=0, C at x=100 and B at
\* its declared x.
C11_FloatingNeverAdvances ==
    \A f \in Nodes : IsFrame(f) =>
        /\ \A i \in 1..Len(children[f]) :
              posn[children[f][i]][Main(kind, f)] =
                  IF kind[children[f][i]].floating
                  THEN Declared(kind, children[f][i], Main(kind, f))
                  ELSE ExtentBefore(f, i)
        /\ FloatingExample(f) =>
              /\ posn[children[f][1]].x = 0
              /\ posn[children[f][3]].x = 100
              /\ posn[children[f][2]].x = kind[children[f][2]].fx

C11_Witness ==
    \E f \in Nodes :
        /\ FloatingExample(f)
        /\ posn[children[f][3]].x = 100
        /\ posn[children[f][2]].x # 100

\* ---------------------------------------------------------------- hit_test
\* absolute position of node n along axis a: its position in its frame, less
\* the scroll offset of the frame, plus the absolute position of the frame
RECURSIVE AbsAt(_, _, _)
AbsAt(n, a, d) ==
    IF parent[n] = NoWidget \/ d = 0 THEN posn[n][a]
    ELSE posn[n][a] - offset[parent[n]][a] + AbsAt(parent[n], a, d - 1)

Absolute(n, a) == AbsAt(n, a, MaxNodes)

\* extent of the absolute rectangle of n: the viewport of a frame, the size
\* of a widget
Extent(n, a) == IF kind[n].frame THEN Viewport(kind, n, a) ELSE Size(kind, n, a)

InRect(n, p) ==
    \A a \in Axes : Absolute(n, a) <= p[a] /\ p[a] < Absolute(n, a) + Extent(n, a)

\* p is in the rectangle of n and in the clip rectangle of n, the
\* intersection of the viewports of the frames n is in
RECURSIVE VisibleAt(_, _, _)
VisibleAt(n, p, d) ==
    /\ InRect(n, p)
    /\ parent[n] = NoWidget \/ d = 0 \/ VisibleAt(parent[n], p, d - 1)

Visible(n, p) == VisibleAt(n, p, MaxNodes)

RECURSIVE HitAmong(_, _, _)
RECURSIVE HitIn_OutermostFirst(_, _, _)
RECURSIVE HitIn(_, _, _)

\* slip: the walk stops at the outermost widget under the point
HitIn_OutermostFirst(n, p, d) == IF InRect(n, p) THEN n ELSE NoWidget

\* hit_test below node n: the innermost widget under p, the children walked
\* before the frame itself (0: p is not inside n)
HitIn(n, p, d) ==
    IF ~InRect(n, p) THEN NoWidget
    ELSE LET r == IF d = 0 THEN NoWidget ELSE HitAmong(children[n], p, d - 1)
         IN  IF r # NoWidget THEN r ELSE n

\* hit_test over the widgets cs, the one packed last first
HitAmong(cs, p, d) ==
    IF cs = <<>> THEN NoWidget
    ELSE LET r == HitIn(cs[Len(cs)], p, d)
         IN  IF r # NoWidget THEN r ELSE HitAmong(SubSeq(cs, 1, Len(cs) - 1), p, d)

\* the widgets and frames packed in no frame, in construction order
Roots == SelectSeq([i \in 1..nodes |-> i], LAMBDA n : parent[n] = NoWidget)

\* hit_test(point)
hit_test(p) ==
    /\ fop' = [name |-> "hit_test", f |-> NoWidget, c |-> NoWidget]
    /\ point' = p
    /\ hit' = HitAmong(Roots, p, MaxNodes)
    /\ ferr' = "none"
    /\ UNCHANGED <<nodes, kind, parent, children, depth, posn, packed, offset, fpc>>
    /\ UNCHANGED <<wmvars, pvars, dvars, svars>>

\* frame 1 with frame 2 packed in it and the widgets cs packed in frame 2
NestedFrames(outer, inner, cs) ==
    LET k == [n \in Nodes |->
                IF n = 1 THEN FrameKind(outer)
                ELSE IF n = 2 THEN FrameKind(inner)
                ELSE IF n - 2 <= Len(cs) THEN cs[n - 2] ELSE NoKind]
        ch == [i \in 1..Len(cs) |-> i + 2]
    IN  /\ ~SizingFails(k, 1, <<2>>, 2)
        /\ \A i \in 1..Len(cs) : ~SizingFails(k, 2, SubSeq(ch, 1, i), i + 2)
        /\ nodes = Len(cs) + 2
        /\ kind = k
        /\ parent = [n \in Nodes |-> IF n \in Range(ch) THEN 2 ELSE IF n = 2 THEN 1
                                      ELSE NoWidget]
        /\ children = [n \in Nodes |-> IF n = 1 THEN <<2>> ELSE IF n = 2 THEN ch ELSE <<>>]
        /\ depth = [n \in Nodes |-> IF n \in Range(ch) THEN 2 ELSE IF n = 2 THEN 1 ELSE 0]
        /\ posn = PackPositions(k, 2, ch,
                    PackPositions(k, 1, <<2>>, [n \in Nodes |-> [x |-> 0, y |-> 0]]))
        /\ packed = [n \in Nodes |->
                        IF n = 1 THEN PackCursor(k, <<2>>, Main(k, 1), 0)
                        ELSE IF n = 2 THEN PackCursor(k, ch, Main(k, 2), 0) ELSE 0]
        /\ offset = [n \in Nodes |-> [x |-> 0, y |-> 0]]
        /\ ferr = "none"
        /\ fop = NoOp
        /\ fpc = "idle"

InitHit ==
    /\ WMInit
    /\ HitInit
    /\ PadInit
    /\ DropInit
    /\ SubInit
    /\ \E outer \in FrameArgs, inner \in FrameArgs :
          \E n \in 0..(MaxNodes - 2) : \E cs \in [1..n -> LeafKinds] :
              NestedFrames(outer, inner, cs)

HitNext ==
    \/ \E f \in Nodes, a \in Axes, delta \in ScrollDeltas : scroll(f, a, delta)
    \/ \E p \in Points : hit_test(p)

SpecHit == InitHit /\ [][HitNext]_vars

\* a frame packed in a frame, with a scrollbar
NestedScrolled(f) ==
    /\ IsFrame(f)
    /\ parent[f] # NoWidget
    /\ \E a \in Axes : Scrollbar(kind, f, a)

\* C12: hit_test on a point inside the visible area of a nested scrolled
\* frame returns a widget whose visible rectangle contains the point, with
\* no widget below it that contains the point (the innermost), and never a
\* frame the nested frame is packed in.
C12_HitTestInnermost ==
    fop.name = "hit_test" =>
        \A f \in Nodes : (NestedScrolled(f) /\ Visible(f, point)) =>
            /\ hit # NoWidget
            /\ Visible(hit, point)
            /\ hit \notin (SelfAndAncestors(f) \ {f})
            /\ \A d \in Descendants(children, hit) : ~Visible(d, point)

C12_Witness ==
    /\ fop.name = "hit_test"
    /\ hit # NoWidget
    /\ ~kind[hit].frame
    /\ NestedScrolled(parent[hit])
    /\ \E a \in Axes : offset[parent[hit]][a] > 0
    /\ Visible(parent[hit], point)
    /\ Visible(parent[parent[hit]], point)

\* ---------------------------------------------------------- insertion order
\* the widgets the running call has put in the list of its menu so far
AddedByCall ==
    SubSeq(widgets[callMenu], Len(pre) + 1, Len(widgets[callMenu]))

\* C13: children are kept in insertion order: a step of an add call either
\* leaves a widget list as it is, or puts one new widget last, or (the add
\* failing) takes the widget just put last away again, so the widgets
\* already there are never reordered; when a call returns, the list is the
\* list the call found followed by the widgets it added in the order it
\* constructed them, a function of the sequence of calls only.
C13_InsertionOrder ==
    [][/\ \A m \in Menus :
            \/ widgets'[m] = widgets[m]
            \/ /\ pc = "run"
               /\ widgets'[m] = Append(widgets[m], cur')
               /\ cur' \notin Range(widgets[m])
            \/ /\ pc = "appended"
               /\ raised' # "none"
               /\ widgets[m] = Append(widgets'[m], cur)
       /\ (pc' = "done" /\ raised' = "none") =>
            /\ Len(widgets'[callMenu']) > Len(pre')
            /\ SubSeq(widgets'[callMenu'], 1, Len(pre')) = pre'
            /\ widgets'[callMenu'][Len(widgets'[callMenu'])] = cur'
            /\ \A i \in (Len(pre') + 1)..(Len(widgets'[callMenu']) - 1) :
                    widgets'[callMenu'][i] < widgets'[callMenu'][i + 1]]_vars

C13_Witness ==
    /\ pc = "done"
    /\ raised = "none"
    /\ Len(pre) >= 1
    /\ Len(AddedByCall) >= 1
    /\ cur \notin Range(pre)
    /\ widgets[callMenu] = pre \o AddedByCall

\* ------------------------------------------------------------------ padding
\* a call of parse_padding
call_parse_padding(padding) ==
    /\ padOp' = "parse_padding"
    /\ padArg' = padding
    /\ padRet' = parse_padding(padding).value
    /\ padErr' = parse_padding(padding).err
    /\ UNCHANGED frameArg
    /\ UNCHANGED <<wmvars, fvars, hvars, dvars, svars>>

PadNext == \E padding \in PaddingInputs : call_parse_padding(padding)

SpecPad == Init /\ [][PadNext]_vars

\* the numbers handed in as padding, in order
Given ==
    IF padArg.type = "number" THEN <<padArg.num>>
    ELSE IF padArg.type = "tuple" THEN padArg.elems
    ELSE <<>>

\* the padding is 1 to 4 non-negative numbers
Accepted ==
    /\ padArg.type \in {"number", "tuple"}
    /\ Len(Given) \in 1..4
    /\ \A i \in 1..Len(Given) : Given[i].n >= 0

\* (top, right, bottom, left) by the CSS shorthand rule, as places of Given
Shorthand ==
    IF Len(Given) = 1 THEN <<1, 1, 1, 1>>
    ELSE IF Len(Given) = 2 THEN <<1, 2, 1, 2>>
    ELSE IF Len(Given) = 3 THEN <<1, 2, 3, 2>>
    ELSE <<1, 2, 3, 4>>

\* C14 as stated: the padding returned is the numbers given, expanded by
\* the CSS shorthand rule.
C14_Original ==
    (padOp = "parse_padding" /\ Accepted) =>
        /\ padErr = "none"
        /\ Len(padRet) = 4
        /\ \A i \in 1..4 : ~Given[Shorthand[i]].half /\ padRet[i] = Given[Shorthand[i]].n

\* C14 (amended): parse_padding expands 1 to 4 non-negative numbers to
\* (top, right, bottom, left) by the CSS shorthand rule, every component
\* being the number given cut off to an integer (25.5 gives 25); a padding
\* of integers is returned as the rule states.
C14_PaddingShorthand ==
    (padOp = "parse_padding" /\ Accepted) =>
        /\ padErr = "none"
        /\ Len(padRet) = 4
        /\ \A i \in 1..4 :
              /\ padRet[i] = Given[Shorthand[i]].n
              /\ padRet[i] >= 0

C14_Witness ==
    /\ padOp = "parse_padding"
    /\ padArg.type = "tuple"
    /\ Len(padArg.elems) = 3
    /\ padArg.elems[1] = [n |-> 25, half |-> TRUE]
    /\ padArg.elems[2] = Num(0)
    /\ padArg.elems[3] = Num(0)
    /\ padRet = <<25, 0, 0, 0>>

\* C15: parse_padding rejects a negative number, a tuple with a negative
\* element and a tuple of length 0 or more than 4; the rejected call raises
\* and returns no padding.
C15_RejectsNegative ==
    (/\ padOp = "parse_padding"
     /\ padArg.type \in {"number", "tuple"}
     /\ \/ \E i \in 1..Len(Given) : Given[i].n < 0
        \/ padArg.type = "tuple" /\ Len(Given) \notin 1..4) =>
        /\ padErr = "AssertionError"
        /\ padRet = NoPadding

C15_Witness ==
    /\ padOp = "parse_padding"
    /\ padArg.type = "tuple"
    /\ Len(padArg.elems) = 3
    /\ padArg.elems[1].n >= 0
    /\ padArg.elems[2].n >= 0
    /\ padArg.elems[3].n < 0
    /\ padErr = "AssertionError"
    /\ padRet = NoPadding

\* ----------------------------------------------------- frames with padding
\* the arguments _frame works with once the padding is parsed; max_width
\* and max_height default to the width and the height
PaddedArgs(size, orient, padding) ==
    [orient |-> orient, width |-> size.w, height |-> size.h,
     max_width |-> size.w, max_height |-> size.h,
     padding |-> parse_padding(padding).value]

\* frame_h / frame_v (_frame) with a padding: parse_padding, the two
\* asserts on the size, then the Frame is constructed
frame_padded(size, orient, padding) ==
    /\ fpc = "idle"
    /\ fpc' = "done"
    /\ nodes < MaxNodes
    /\ nodes < MaxFrames
    /\ padOp' = "_frame"
    /\ padArg' = padding
    /\ padRet' = parse_padding(padding).value
    /\ padErr' = parse_padding(padding).err
    /\ frameArg' = size
    /\ IF parse_padding(padding).err = "none"
          /\ FrameArgsValid(PaddedArgs(size, orient, padding))
       THEN /\ fop' = [name |-> "frame", f |-> nodes + 1, c |-> NoWidget]
            /\ nodes' = nodes + 1
            /\ kind' = [kind EXCEPT ![nodes + 1] =
                            FrameKind(PaddedArgs(size, orient, padding))]
            /\ ferr' = "none"
       ELSE /\ fop' = [name |-> "frame", f |-> NoWidget, c |-> NoWidget]
            /\ ferr' = "AssertionError"
            /\ UNCHANGED <<nodes, kind>>
    /\ UNCHANGED <<parent, children, depth, posn, packed, offset>>
    /\ UNCHANGED <<wmvars, hvars, dvars, svars>>

FramePadNext ==
    \/ \E size \in FrameSizes, orient \in {"h", "v"}, padding \in FramePaddings :
            frame_padded(size, orient, padding)
    \/ FrameReturn

SpecFramePad == Init /\ [][FramePadNext]_vars

\* what C16 says of the state a call of frame_h / frame_v ends in
InnerSizeRule ==
    /\ \A f \in Nodes : IsFrame(f) => (kind[f].w > 0 /\ kind[f].h > 0)
    /\ (fpc = "done" /\ padOp = "_frame" /\ padErr = "none") =>
          IF frameArg.w > padRet[2] + padRet[4] /\ frameArg.h > padRet[1] + padRet[3]
          THEN /\ ferr = "none"
               /\ fop.f = nodes
               /\ kind[fop.f].w = frameArg.w - padRet[2] - padRet[4]
               /\ kind[fop.f].h = frameArg.h - padRet[1] - padRet[3]
               /\ (frameArg = [w |-> 100, h |-> 200] /\ padArg = NumberOf(Num(25))) =>
                      (kind[fop.f].w = 50 /\ kind[fop.f].h = 150)
          ELSE /\ ferr = "AssertionError"
               /\ fop.f = NoWidget
    /\ (fpc = "done" /\ padOp = "_frame" /\ padErr # "none") =>
          (ferr = "AssertionError" /\ fop.f = NoWidget)

\* C16: a frame added with width W, height H and padding (top, right,
\* bottom, left) has inner size (W - right - left, H - top - bottom), 50 x 150
\* for width=100, height=200, padding=25; the add is rejected with no frame
\* constructed unless W > right + left and H > top + bottom, so the inner
\* width and height of every frame are strictly positive.
C16_FrameInnerSize ==
    /\ []InnerSizeRule
    /\ [][(fpc = "idle" /\ ferr' = "AssertionError") =>
            UNCHANGED <<nodes, kind, parent, children>>]_vars

C16_Witness ==
    /\ fpc = "done"
    /\ padOp = "_frame"
    /\ frameArg = [w |-> 100, h |-> 200]
    /\ padArg = NumberOf(Num(25))
    /\ ferr = "none"
    /\ kind[nodes].w = 50
    /\ kind[nodes].h = 150

\* ------------------------------------------------------ DropSelectMultiple
\* set_default_value: None and -1 stand for no index, an int for one index
DefaultList(default) ==
    IF default.type = "None" \/ (default.type = "int" /\ default.int = -1) THEN <<>>
    ELSE IF default.type = "int" THEN <<default.int>>
    ELSE default.list

\* set_default_value: assert isinstance(i, int) and 0 <= i < len(self._items)
DefaultValid(items, d) == \A i \in 1..Len(d) : 0 <= d[i] /\ d[i] < Len(items)

\* _process_index: the active index joins the selected indices, or leaves
\* them when it is among them; the selected indices afterwards
process_index(idx, sel, max) ==
    IF idx = -1 THEN sel
    ELSE IF idx \in Range(sel) THEN RemoveAt(sel, IndexOf(sel, idx))
    ELSE IF max = 0 \/ Len(sel) < max
         THEN SortSeq(Append(sel, idx), LAMBDA a, b : a < b)
    ELSE sel

\* slip: set_value processes the index whatever process_index is
Processes_Always(flag) == TRUE

\* set_value: if process_index: self._process_index()
Processes(flag) == flag

\* slip: the last item with the text is taken
FindText_Last(items, text) ==
    IF \E j \in 1..Len(items) : items[j].text = text
    THEN (CHOOSE j \in 1..Len(items) :
            items[j].text = text /\ \A k \in (j + 1)..Len(items) : items[k].text # text) - 1
    ELSE -1

\* set_value with a string: for i in self._items: if i[0] == item:
\* self._items.index(i) (-1: no item has the text)
FindText(items, text) ==
    IF \E j \in 1..Len(items) : items[j].text = text
    THEN LET first == CHOOSE j \in 1..Len(items) :
                        items[j].text = text /\ \A k \in 1..(j - 1) : items[k].text # text
         IN  IndexOf(items, items[first]) - 1
    ELSE -1

\* set_value: the error the item raises ("none": it is taken)
SetValueError(items, item) ==
    IF item.type = "str"
    THEN IF FindText(items, item.text) = -1 THEN "ValueError" ELSE "none"
    ELSE IF -1 <= item.int /\ item.int < Len(items) THEN "none" ELSE "AssertionError"

\* set_value: the active index the item sets
SetValueIndex(items, item) ==
    IF item.type = "str" THEN FindText(items, item.text) ELSE item.int

\* slip: update_items keeps the selected indices
ClearedOnUpdate_Kept(sel) == sel

\* update_items: self._default_value = []; self._selected_indices = []
ClearedOnUpdate(sel) == <<>>

\* update_items of DropSelect: the active index is kept when the new list is
\* as long as the one before, -1 otherwise
IndexOnUpdate(idx, old, new) == IF Len(old) = Len(new) THEN idx ELSE -1

\* value_changed()
value_changed(def, sel) ==
    \/ Len(def) # Len(sel)
    \/ \E i \in 1..Len(sel) : sel[i] \notin Range(def)

\* get_total_selected()
get_total_selected(sel) == Len(sel)

\* DropSelectMultiple(title, items, default=default, max_selected=max)
DropSelectMultiple(items, default, max) ==
    /\ ~dsMade
    /\ dsOp' = [name |-> "init", item |-> NoItemArg, process |-> FALSE]
    /\ IF DefaultValid(items, DefaultList(default))
       THEN /\ dsMade' = TRUE
            /\ dsItems' = items
            /\ dsIndex' = -1
            /\ dsMax' = max
            /\ dsDefault' = DefaultList(default)
            /\ dsSelected' = DefaultList(default)
            /\ dsErr' = "none"
       ELSE /\ dsErr' = "AssertionError"
            /\ UNCHANGED <<dsMade, dsItems, dsIndex, dsMax, dsDefault, dsSelected>>
    /\ UNCHANGED <<wmvars, fvars, hvars, pvars, svars>>

\* set_default_value(default)
set_default_value(default) ==
    /\ dsMade
    /\ dsOp' = [name |-> "set_default_value", item |-> NoItemArg, process |-> FALSE]
    /\ IF DefaultValid(dsItems, DefaultList(default))
       THEN /\ dsDefault' = DefaultList(default)
            /\ dsSelected' = DefaultList(default)
            /\ dsErr' = "none"
       ELSE /\ dsErr' = "AssertionError"
            /\ UNCHANGED <<dsDefault, dsSelected>>
    /\ UNCHANGED <<dsMade, dsItems, dsIndex, dsMax>>
    /\ UNCHANGED <<wmvars, fvars, hvars, pvars, svars>>

\* set_value(item, process_index)
set_value(item, flag) ==
    /\ dsMade
    /\ dsOp' = [name |-> "set_value", item |-> item, process |-> flag]
    /\ dsErr' = SetValueError(dsItems, item)
    /\ IF SetValueError(dsItems, item) = "none"
       THEN /\ dsIndex' = SetValueIndex(dsItems, item)
            /\ dsSelected' =
                  IF Processes(flag)
                  THEN process_index(SetValueIndex(dsItems, item), dsSelected, dsMax)
                  ELSE dsSelected
       ELSE UNCHANGED <<dsIndex, dsSelected>>
    /\ UNCHANGED <<dsMade, dsItems, dsDefault, dsMax>>
    /\ UNCHANGED <<wmvars, fvars, hvars, pvars, svars>>

\* _click_option(index, btn): set_value(index), then _process_index()
click_option(i) ==
    /\ dsMade
    /\ i \in 0..(Len(dsItems) - 1)
    /\ dsOp' = [name |-> "click", item |-> ItemArgOf("int", "", i), process |-> FALSE]
    /\ dsErr' = "none"
    /\ dsIndex' = i
    /\ dsSelected' = process_index(i, dsSelected, dsMax)
    /\ UNCHANGED <<dsMade, dsItems, dsDefault, dsMax>>
    /\ UNCHANGED <<wmvars, fvars, hvars, pvars, svars>>

\* apply(): _process_index()
apply ==
    /\ dsMade
    /\ dsOp' = [name |-> "apply", item |-> NoItemArg, process |-> FALSE]
    /\ dsErr' = "none"
    /\ dsSelected' = process_index(dsIndex, dsSelected, dsMax)
    /\ UNCHANGED <<dsMade, dsItems, dsIndex, dsDefault, dsMax>>
    /\ UNCHANGED <<wmvars, fvars, hvars, pvars, svars>>

\* reset_value()
reset_value ==
    /\ dsMade
    /\ dsOp' = [name |-> "reset_value", item |-> NoItemArg, process |-> FALSE]
    /\ dsErr' = "none"
    /\ dsIndex' = -1
    /\ dsSelected' = dsDefault
    /\ UNCHANGED <<dsMade, dsItems, dsDefault, dsMax>>
    /\ UNCHANGED <<wmvars, fvars, hvars, pvars, svars>>

\* update_items(items)
update_items(items) ==
    /\ dsMade
    /\ dsOp' = [name |-> "update_items", item |-> NoItemArg, process |-> FALSE]
    /\ dsErr' = "none"
    /\ dsItems' = items
    /\ dsIndex' = IndexOnUpdate(dsIndex, dsItems, items)
    /\ dsDefault' = ClearedOnUpdate(dsDefault)
    /\ dsSelected' = ClearedOnUpdate(dsSelected)
    /\ UNCHANGED <<dsMade, dsMax>>
    /\ UNCHANGED <<wmvars, fvars, hvars, pvars, svars>>

DropNext ==
    \/ \E items \in ItemLists, default \in Defaults, max \in MaxSelected :
            DropSelectMultiple(items, default, max)
    \/ \E default \in Defaults : set_default_value(default)
    \/ \E item \in ItemArgs, flag \in BOOLEAN : set_value(item, flag)
    \/ \E i \in 0..2 : click_option(i)
    \/ apply
    \/ reset_value
    \/ \E items \in ItemLists : update_items(items)

SpecDrop == Init /\ [][DropNext]_vars

\* C17: with max_selected > 0 the number of selected items never exceeds
\* max_selected, whatever accepted default the widget is constructed with
\* and whatever calls follow.
C17_MaxSelectedBound ==
    (dsMade /\ dsMax > 0) => get_total_selected(dsSelected) <= dsMax

\* C18: after update_items(items), from any state, the selected indices and
\* the default value are empty, get_total_selected() is 0 and
\* value_changed() is false.
C18_UpdateItemsClears ==
    dsOp.name = "update_items" =>
        /\ dsSelected = <<>>
        /\ dsDefault = <<>>
        /\ get_total_selected(dsSelected) = 0
        /\ ~value_changed(dsDefault, dsSelected)

C18_Witness ==
    /\ dsOp.name = "update_items"
    /\ dsSelected = <<>>
    /\ dsIndex # -1
    /\ Len(dsItems) = 3

\* the step is a call of set_value that returned or raised
SetValueStep == dsOp'.name = "set_value"

\* C19: set_value with process_index=False changes the active index only:
\* the selected indices and the default value (and the items) are after the
\* call as before it, for every item argument; the selected indices change
\* only when process_index=True, and then by the item alone.
C19_SetValueFrame ==
    [][SetValueStep =>
        /\ dsDefault' = dsDefault
        /\ dsItems' = dsItems
        /\ ~dsOp'.process => dsSelected' = dsSelected
        /\ dsSelected' # dsSelected =>
              /\ dsOp'.process
              /\ \A i \in (Range(dsSelected) \cup Range(dsSelected')) \ {dsIndex'} :
                    i \in Range(dsSelected) <=> i \in Range(dsSelected')]_vars

C19_Witness ==
    /\ dsOp.name = "set_value"
    /\ ~dsOp.process
    /\ dsErr = "none"
    /\ dsIndex # -1
    /\ dsIndex \notin Range(dsSelected)
    /\ dsSelected # <<>>
    /\ (dsMax = 0 \/ Len(dsSelected) < dsMax)

\* the first place (counted from 0) of an item with the text, -1: none
FirstPlace(text) ==
    IF \A j \in 1..Len(dsItems) : dsItems[j].text # text THEN -1
    ELSE (CHOOSE j \in 1..Len(dsItems) :
            dsItems[j].text = text /\ \A k \in 1..(j - 1) : dsItems[k].text # text) - 1

\* C20: set_value with a string sets the active index to the first item
\* whose text is the string (0 for 'a' in [['a', 0], ['b', 1], ['a', 2]]);
\* when no item has the text it raises ValueError and leaves the active
\* index and the selected indices as they were.
C20_SetValueString ==
    [][(SetValueStep /\ dsOp'.item.type = "str") =>
        IF FirstPlace(dsOp'.item.text) # -1
        THEN /\ dsErr' = "none"
             /\ dsIndex' = FirstPlace(dsOp'.item.text)
             /\ (dsItems = <<Item("a", 0), Item("b", 1), Item("a", 2)>>
                    /\ dsOp'.item.text = "a") => dsIndex' = 0
        ELSE /\ dsErr' = "ValueError"
             /\ dsIndex' = dsIndex
             /\ dsSelected' = dsSelected]_vars

C20_Witness ==
    /\ dsOp.name = "set_value"
    /\ dsOp.item = ItemArgOf("str", "a", 0)
    /\ dsItems = <<Item("a", 0), Item("b", 1), Item("a", 2)>>
    /\ dsErr = "none"
    /\ dsIndex = 0

\* the selected indices are below the max_selected limit
BelowLimit == dsMax = 0 \/ Len(dsSelected) < dsMax

\* C21: _process_index (apply) toggles the active index: an active index
\* among the selected indices is removed and is no longer selected, any
\* other (limit not reached) is added; with active index -1 nothing changes;
\* and, starting below the limit, processing the same active index once more
\* gives the selected indices back exactly as they were.
C21_ProcessIndexToggles ==
    [][dsOp'.name = "apply" =>
        /\ dsIndex = -1 => dsSelected' = dsSelected
        /\ (dsIndex # -1 /\ dsIndex \in Range(dsSelected)) =>
                dsIndex \notin Range(dsSelected')
        /\ (dsIndex # -1 /\ dsIndex \notin Range(dsSelected) /\ BelowLimit) =>
                dsIndex \in Range(dsSelected')
        /\ BelowLimit => process_index(dsIndex, dsSelected', dsMax) = dsSelected]_vars

\* ---------------------------------------------------------- all-or-nothing
\* WidgetManager.table(table_id, **kwargs): the Table is constructed and
\* appended, then _check_kwargs reports what is left of kwargs (unknown:
\* kwargs holds a keyword no attribute takes)
table(m, id, size, unknown) ==
    /\ pc = "idle"
    /\ created < MaxWidgets
    /\ created' = created + 1
    /\ wid' = [wid EXCEPT ![created + 1] = id]
    /\ selectable' = [selectable EXCEPT ![created + 1] = FALSE]
    /\ wsize' = [wsize EXCEPT ![created + 1] = size]
    /\ callMenu' = m
    /\ pre' = widgets[m]
    /\ preAppend' = widgets[m]
    /\ cur' = NoWidget
    /\ raised' = "none"
    /\ pc' = "run"
    /\ queue' = << [op |-> "append", w |-> created + 1],
                   [op |-> "kwargs", unknown |-> unknown] >>
    /\ UNCHANGED <<wmenu, selected, widgets, index, rendered, events>>
    /\ UNCHANGED notwm

\* _check_kwargs(kwargs): raises ValueError for the first keyword left
CheckKwargs ==
    /\ pc = "run"
    /\ queue # <<>>
    /\ Head(queue).op = "kwargs"
    /\ IF Head(queue).unknown
       THEN /\ raised' = "ValueError"
            /\ queue' = <<>>
            /\ pc' = "done"
       ELSE /\ queue' = Tail(queue)
            /\ pc' = IF Tail(queue) = <<>> THEN "done" ELSE "run"
            /\ UNCHANGED raised
    /\ UNCHANGED <<wvars, wmenu, selected, widgets, index, rendered, events,
                   callMenu, cur, pre, preAppend>>
    /\ UNCHANGED notwm

AddNext ==
    \/ \E m \in MainMenu, id \in UserIds, size \in Sizes, unknown \in BOOLEAN :
            table(m, id, size, unknown)
    \/ \E m \in MainMenu, id \in UserIds, t \in Titles, size \in Sizes :
            label(m, id, t, FALSE, size)
    \/ LabelCheck
    \/ LabelNew
    \/ AppendStep
    \/ RenderStep
    \/ CheckKwargs
    \/ Return

SpecAdd == Init /\ [][AddNext]_vars

\* C22: every widget-addition call is all-or-nothing: when the call has
\* raised, the widget list of its menu is the list the call found.
C22_AllOrNothing ==
    (pc = "done" /\ raised # "none") => widgets[callMenu] = pre

\* ------------------------------------------------------- submenu links
\* the submenus of a menu: the keys of Menu._submenus
SubmenusOf(m) == {a \in Menus : submenus[m][a] # <<>>}

RECURSIVE SubmenuClosure(_, _)
SubmenuClosure(S, n) ==
    IF n = 0 THEN S
    ELSE SubmenuClosure(S \cup UNION {SubmenusOf(x) : x \in S}, n - 1)

\* the submenu structure of a menu: its submenus, and theirs, and so on
SubmenuStructure(m) == SubmenuClosure(SubmenusOf(m), Cardinality(Menus))

\* Menu.in_submenu(menu, recursive=True) called on self
in_submenu(self, menu) == menu \in SubmenuStructure(self)

\* the check for recursive menus of button and menu_link
Recursive_SelfOnly(m, action) == action = m

Recursive(m, action) == action = m \/ in_submenu(action, m)

\* the start of a call that links the menu action to the menu m with a new
\* widget: the check for recursive menus, the widget, and what is left to do
Link(m, id, sel, size, action) ==
    /\ pc = "idle"
    /\ created < MaxWidgets
    /\ callMenu' = m
    /\ linkArg' = action
    /\ pre' = widgets[m]
    /\ preAppend' = widgets[m]
    /\ cur' = NoWidget
    /\ IF Recursive(m, action)
       THEN /\ raised' = "ValueError"
            /\ pc' = "done"
            /\ queue' = <<>>
            /\ UNCHANGED wvars
       ELSE /\ raised' = "none"
            /\ pc' = "run"
            /\ created' = created + 1
            /\ wid' = [wid EXCEPT ![created + 1] = id]
            /\ selectable' = [selectable EXCEPT ![created + 1] = sel]
            /\ wsize' = [wsize EXCEPT ![created + 1] = size]
            /\ queue' = << [op |-> "append", w |-> created + 1],
                           [op |-> "submenu", menu |-> action] >>
    /\ UNCHANGED <<wmenu, selected, widgets, index, rendered, events>>
    /\ UNCHANGED <<fvars, hvars, pvars, dvars, submenus, menuHook>>

\* WidgetManager.button(title, action, button_id=id) with a Menu as action
button(m, id, size, action) == Link(m, id, TRUE, size, action)

\* WidgetManager.menu_link(menu, link_id): the link is invisible and cannot
\* be selected
menu_link(m, link_id, menu) == Link(m, link_id, FALSE, NoSize, menu)

\* WidgetManager._add_submenu(menu, hook), hook being the widget appended
AddSubmenu ==
    /\ pc = "run"
    /\ queue # <<>>
    /\ Head(queue).op = "submenu"
    /\ LET menu == Head(queue).menu
           hook == cur
       IN  IF menu = callMenu \/ hook \in Range(submenus[callMenu][menu])
           THEN /\ raised' = "AssertionError"
                /\ UNCHANGED <<submenus, menuHook>>
           ELSE /\ submenus' = [submenus EXCEPT ![callMenu][menu] = Append(@, hook)]
                /\ menuHook' = [menuHook EXCEPT ![hook] = menu]
                /\ UNCHANGED raised
    /\ queue' = <<>>
    /\ pc' = "done"
    /\ UNCHANGED <<wvars, wmenu, selected, widgets, index, rendered, events,
                   callMenu, cur, pre, preAppend>>
    /\ UNCHANGED <<fvars, hvars, pvars, dvars, linkArg>>

\* the linking call has returned or raised; the caller goes on
LinkReturn ==
    /\ pc = "done"
    /\ pc' = "idle"
    /\ raised' = "none"
    /\ cur' = NoWidget
    /\ pre' = <<>>
    /\ preAppend' = <<>>
    /\ callMenu' = "m1"
    /\ linkArg' = NoMenu
    /\ UNCHANGED <<wvars, wmenu, selected, widgets, index, rendered, events, queue>>
    /\ UNCHANGED <<fvars, hvars, pvars, dvars, submenus, menuHook>>

LinkNext ==
    \/ \E m \in Menus, id \in UserIds, size \in Sizes, action \in Menus :
            button(m, id, size, action)
    \/ \E m \in Menus, link_id \in UserIds, menu \in Menus :
            menu_link(m, link_id, menu)
    \/ AppendStep
    \/ RenderStep
    \/ AddSubmenu
    \/ LinkReturn

SpecLink == Init /\ [][LinkNext]_vars

\* no menu is in its own submenu structure
NoSubmenuCycle == \A m \in Menus : m \notin SubmenuStructure(m)

\* no widget is twice among the hooks of one submenu
NoHookTwice ==
    \A m \in Menus, a \in Menus :
        \A i \in 1..Len(submenus[m][a]), j \in 1..Len(submenus[m][a]) :
            submenus[m][a][i] = submenus[m][a][j] => i = j

\* the linking call that starts would link its menu to itself or to a menu
\* whose submenu structure contains it
LinksBack ==
    /\ pc = "idle"
    /\ linkArg' # NoMenu
    /\ linkArg' = callMenu' \/ callMenu' \in SubmenuStructure(linkArg')

\* C23: after any sequence of button(action=<Menu>) and menu_link calls the
\* submenu relation has no cycle and no hook is registered twice for one
\* submenu; a call that would link a menu to itself, or to a menu whose
\* submenu structure contains the receiving menu, raises ValueError and adds
\* neither a widget nor a submenu hook.
C23_NoSubmenuCycle ==
    /\ [](NoSubmenuCycle /\ NoHookTwice)
    /\ [][LinksBack =>
            /\ raised' = "ValueError"
            /\ pc' = "done"
            /\ UNCHANGED <<created, widgets, wmenu, submenus, menuHook>>]_vars

\* a link m1 -> m2 -> m3 exists and linking m3 back to m1 has been refused
C23_Witness ==
    /\ pc = "done"
    /\ raised = "ValueError"
    /\ callMenu # linkArg
    /\ linkArg \notin SubmenusOf(callMenu)
    /\ callMenu \in SubmenuStructure(linkArg)
    /\ callMenu \notin SubmenusOf(linkArg)

\* ------------------------------------------------- selection on append
\* the places (from 1) of the selectable widgets of a menu
SelectablePlaces(m) == {i \in 1..Len(widgets[m]) : selectable[widgets[m][i]]}

FirstSelectable(m) ==
    CHOOSE i \in SelectablePlaces(m) : \A j \in SelectablePlaces(m) : i <= j

\* the index is negative when the menu has no selectable widget; otherwise
\* it is the position of the first one, the only selected widget of the menu
IndexRule(m) ==
    IF SelectablePlaces(m) = {}
    THEN /\ index[m] < 0
         /\ \A i \in 1..Len(widgets[m]) : ~selected[widgets[m][i]]
    ELSE /\ index[m] = FirstSelectable(m) - 1
         /\ \A i \in 1..Len(widgets[m]) :
                selected[widgets[m][i]] <=> i = FirstSelectable(m)

\* C24: starting from a menu with no selection, the index is negative if and
\* only if no selectable widget has been added; otherwise it is the position
\* of the first selectable widget added, that widget is the only selected
\* one, and no step of a call that has not raised moves the index.
C24_IndexFirstSelectable ==
    /\ [](\A m \in MainMenu : IndexRule(m))
    /\ [][\A m \in MainMenu :
            (index[m] >= 0 /\ raised' = "none") => index'[m] = index[m]]_vars

\* a second selectable widget has been added after the selected one
C24_Witness ==
    /\ pc = "done"
    /\ raised = "none"
    /\ Len(widgets[callMenu]) = 2
    /\ Len(pre) = 1
    /\ \A i \in 1..2 : selectable[widgets[callMenu][i]]
    /\ index[callMenu] = 0
    /\ selected[widgets[callMenu][1]]
    /\ ~selected[widgets[callMenu][2]]

TypeOK ==
    /\ created \in 0..MaxWidgets
    /\ pc \in {"idle", "run", "appended", "done"}
    /\ \A m \in Menus : Range(widgets[m]) \subseteq 1..created

====
